---- MODULE Spec2Model ----
(***************************************************************************)
(* A model of squirrel-rng (src/src/lib.rs): the Squirrel3 mixer, the      *)
(* SquirrelRng generator value (position, seed) and its RngCore adapter    *)
(* (next_u32, next_u64, fill_bytes, try_fill_bytes).                       *)
(*                                                                         *)
(* A u32 is a pair of 16-bit limbs <<low, high>> and a u64 four 16-bit     *)
(* limbs, least significant first: TLC's integers are 32-bit signed, so a  *)
(* u32 does not fit one of them.  All arithmetic is done on the limbs,     *)
(* modulo 2^32.                                                            *)
(***************************************************************************)
EXTENDS Integers, Sequences, FiniteSets, TLC

----------------------------------------------------------------------------
(* u32 and u64 arithmetic                                                  *)

\* u8 has 2^8 values
Byte == 2 ^ 8

\* a 16-bit limb has 2^16 values
Limb == Byte * Byte

U32(hi, lo) == <<lo, hi>>

IsU32(x) == /\ x \in Seq(0 .. Limb - 1)
            /\ Len(x) = 2

Zero == U32(0, 0)

One == U32(0, 1)

MaxU32 == U32(\hFFFF, \hFFFF)

\* The 32-bit product of two limbs, as a u32: x * y with y split in bytes so
\* that no intermediate value leaves 0 .. 2^31 - 1.
MulLimb(x, y) ==
    LET u == x * (y % Byte)
        t == x * (y \div Byte)
    IN  <<(u + Byte * (t % Byte)) % Limb, ((u \div Byte) + t) \div Byte>>

\* u32::wrapping_add
wrapping_add(x, y) ==
    LET s == x[1] + y[1]
    IN  <<s % Limb, (x[2] + y[2] + (s \div Limb)) % Limb>>

\* u32::wrapping_mul
wrapping_mul(x, y) ==
    LET p == MulLimb(x[1], y[1])
    IN  <<p[1], (p[2] + MulLimb(x[1], y[2])[1] + MulLimb(x[2], y[1])[1]) % Limb>>

\* x >> 8 on a u32
Shr8(x) == <<(x[1] \div Byte) + (x[2] % Byte) * Byte, x[2] \div Byte>>

\* x << 8 on a u32 (the high byte is shifted out)
Shl8(x) == <<(x[1] % Byte) * Byte, (x[2] % Byte) * Byte + (x[1] \div Byte)>>

RECURSIVE XorBits(_, _, _)
XorBits(x, y, n) ==
    IF n = 0 THEN 0
    ELSE ((x + y) % 2) + 2 * XorBits(x \div 2, y \div 2, n - 1)

RECURSIVE OrBits(_, _, _)
OrBits(x, y, n) ==
    IF n = 0 THEN 0
    ELSE (IF (x % 2) + (y % 2) > 0 THEN 1 ELSE 0)
         + 2 * OrBits(x \div 2, y \div 2, n - 1)

\* x ^ y and x | y on 4-bit digits, tabulated
Hex == 2 ^ 4

XorHex == [x \in 0 .. Hex - 1, y \in 0 .. Hex - 1 |-> XorBits(x, y, 4)]

OrHex == [x \in 0 .. Hex - 1, y \in 0 .. Hex - 1 |-> OrBits(x, y, 4)]

\* x ^ y on 16-bit limbs, digit by digit
Xor16(x, y) ==
    XorHex[x % Hex, y % Hex]
    + Hex * XorHex[(x \div Hex) % Hex, (y \div Hex) % Hex]
    + Byte * XorHex[(x \div Byte) % Hex, (y \div Byte) % Hex]
    + Hex * Byte * XorHex[x \div (Hex * Byte), y \div (Hex * Byte)]

\* x | y on 16-bit limbs, digit by digit
Or16(x, y) ==
    OrHex[x % Hex, y % Hex]
    + Hex * OrHex[(x \div Hex) % Hex, (y \div Hex) % Hex]
    + Byte * OrHex[(x \div Byte) % Hex, (y \div Byte) % Hex]
    + Hex * Byte * OrHex[x \div (Hex * Byte), y \div (Hex * Byte)]

\* x ^ y on a u32
Xor(x, y) == <<Xor16(x[1], y[1]), Xor16(x[2], y[2])>>

\* u64::from(x: u32)
U64From(x) == <<x[1], x[2], 0, 0>>

\* x << 32 on a u64
Shl32(x) == <<0, 0, x[1], x[2]>>

\* x | y on a u64
Or64(x, y) == [i \in 1 .. 4 |-> Or16(x[i], y[i])]

\* A slip: u32::to_be_bytes
to_be_bytes32(x) ==
    <<x[2] \div Byte, x[2] % Byte, x[1] \div Byte, x[1] % Byte>>

\* u32::to_le_bytes
to_le_bytes32(x) ==
    <<x[1] % Byte, x[1] \div Byte, x[2] % Byte, x[2] \div Byte>>

\* u64::to_le_bytes
to_le_bytes64(x) ==
    [i \in 1 .. 8 |-> IF i % 2 = 1 THEN x[(i + 1) \div 2] % Byte
                                   ELSE x[i \div 2] \div Byte]

\* u32::from_le_bytes
from_le_bytes(bytes) ==
    <<bytes[1] + Byte * bytes[2], bytes[3] + Byte * bytes[4]>>

----------------------------------------------------------------------------
(* The mixer                                                               *)

BIT_NOISE1 == U32(\h68E3, \h1DA4)

BIT_NOISE2 == U32(\hB529, \h7A4D)

BIT_NOISE3 == U32(\h1B56, \hC4E9)

\* mangled ^= mangled >> 8
XorShr8(mangled) == Xor(mangled, Shr8(mangled))

\* mangled ^= mangled << 8
XorShl8(mangled) == Xor(mangled, Shl8(mangled))

\* A slip: the seed is added before the first multiplication
squirrel3_add_first(position, seed) ==
    LET m1 == wrapping_add(position, seed)
        m2 == wrapping_mul(m1, BIT_NOISE1)
        m3 == XorShr8(m2)
        m4 == wrapping_add(m3, BIT_NOISE2)
        m5 == XorShl8(m4)
        m6 == wrapping_mul(m5, BIT_NOISE3)
        m7 == XorShr8(m6)
    IN  m7

squirrel3(position, seed) ==
    LET m1 == wrapping_mul(position, BIT_NOISE1)
        m2 == wrapping_add(m1, seed)
        m3 == XorShr8(m2)
        m4 == wrapping_add(m3, BIT_NOISE2)
        m5 == XorShl8(m4)
        m6 == wrapping_mul(m5, BIT_NOISE3)
        m7 == XorShr8(m6)
    IN  m7

----------------------------------------------------------------------------
(* The generator                                                           *)

\* struct SquirrelRng { position: u32, seed: u32 }
SquirrelRng(position, seed) == [position |-> position, seed |-> seed]

\* SquirrelRng::new; entropy is what rand::thread_rng().next_u32() returns
new(entropy) == SquirrelRng(Zero, entropy)

with_seed(seed) == SquirrelRng(Zero, seed)

\* SquirrelRng::seed_from; drawn is what rng.next_u32() returns
seed_from(drawn) == SquirrelRng(Zero, drawn)

\* A slip: the position is taken relative to the receiver's
with_position_relative(self, position) ==
    SquirrelRng(wrapping_add(self.position, position), self.seed)

\* A slip: the rest of the value comes from a fresh generator, not from self
with_position_reseed(self, position) == SquirrelRng(position, Zero)

\* Self { position, ..self }
with_position(self, position) == SquirrelRng(position, self.seed)

\* SeedableRng::from_seed
from_seed(seed) == with_seed(from_le_bytes(seed))

\* A slip: the position is not stored back
next_u32_stuck(self) ==
    [rng |-> self, ret |-> squirrel3(self.position, self.seed)]

\* A slip: saturating_add in place of wrapping_add
next_u32_saturating(self) ==
    [rng |-> [self EXCEPT !.position = IF self.position = MaxU32 THEN MaxU32
                                       ELSE wrapping_add(self.position, One)],
     ret |-> squirrel3(self.position, self.seed)]

\* RngCore::next_u32: the generator after the call and the value returned
next_u32(self) ==
    LET result == squirrel3(self.position, self.seed)
    IN  [rng |-> [self EXCEPT !.position = wrapping_add(self.position, One)],
         ret |-> result]

\* A slip: (x << 32) | y
JoinU32_swapped(d1, d2) ==
    [rng |-> d2.rng, ret |-> Or64(Shl32(U64From(d1.ret)), U64From(d2.ret))]

\* (y << 32) | x, with x and y the two draws widened to u64; d1 and d2 are the
\* two next_u32 calls
JoinU32(d1, d2) ==
    [rng |-> d2.rng, ret |-> Or64(Shl32(U64From(d2.ret)), U64From(d1.ret))]

SecondU32(d1) == JoinU32(d1, next_u32(d1.rng))

next_u64_via_u32(rng) == SecondU32(next_u32(rng))

\* RngCore::next_u64
next_u64(self) == next_u64_via_u32(self)

\* dest with src copied over the positions off + 1 .. off + Len(src)
copy_from_slice(dest, off, src) ==
    [i \in 1 .. Len(dest) |->
        IF off < i /\ i <= off + Len(src) THEN src[i - off] ELSE dest[i]]

\* A slip: one byte too few is copied
WriteChunk_short(d, chunk, dest, off, n) ==
    [rng  |-> d.rng,
     dest |-> copy_from_slice(dest, off, SubSeq(chunk, 1, n - 1)),
     off  |-> off + n]

\* left.copy_from_slice(&chunk[..n]) after a draw d, left being dest[off + 1 ..];
\* the generator is the one the draw left
WriteChunk(d, chunk, dest, off, n) ==
    [rng  |-> d.rng,
     dest |-> copy_from_slice(dest, off, SubSeq(chunk, 1, n)),
     off  |-> off + n]

\* One turn of the while loop's body, d being the rng.next_u64() call
Chunk64(d, dest, off, n) == WriteChunk(d, to_le_bytes64(d.ret), dest, off, n)

\* The tail's next_u32 branch, d being the rng.next_u32() call
Chunk32(d, dest, off, n) == WriteChunk(d, to_le_bytes32(d.ret), dest, off, n)

\* The while loop of fill_bytes_via_next; w.off bytes of w.dest are filled
RECURSIVE FillChunks(_)
FillChunks(w) ==
    IF Len(w.dest) - w.off >= 8
    THEN FillChunks(Chunk64(next_u64(w.rng), w.dest, w.off, 8))
    ELSE w

\* A slip: the threshold between the two tail draws is 3 bytes, not 4
FillTail_threshold3(w, n) ==
    IF n > 3 THEN Chunk64(next_u64(w.rng), w.dest, w.off, n)
    ELSE IF n > 0 THEN Chunk32(next_u32(w.rng), w.dest, w.off, n)
    ELSE w

\* What follows the while loop, n = left.len() bytes being left
FillTail(w, n) ==
    IF n > 4 THEN Chunk64(next_u64(w.rng), w.dest, w.off, n)
    ELSE IF n > 0 THEN Chunk32(next_u32(w.rng), w.dest, w.off, n)
    ELSE w

TailOf(w) == FillTail(w, Len(w.dest) - w.off)

Filled(w) == [rng |-> w.rng, dest |-> w.dest]

fill_bytes_via_next(rng, dest) ==
    Filled(TailOf(FillChunks([rng |-> rng, dest |-> dest, off |-> 0])))

\* RngCore::fill_bytes
fill_bytes(self, dest) == fill_bytes_via_next(self, dest)

\* A slip: an empty buffer is reported as an error
try_fill_bytes_checked(self, dest) ==
    IF Len(dest) = 0 THEN [rng |-> self, dest |-> dest, result |-> "Err"]
    ELSE [rng    |-> fill_bytes_via_next(self, dest).rng,
          dest   |-> fill_bytes_via_next(self, dest).dest,
          result |-> "Ok"]

\* Ok(()) after self.fill_bytes(dest), f being what that call did
Ok(f) == [rng |-> f.rng, dest |-> f.dest, result |-> "Ok"]

\* RngCore::try_fill_bytes
try_fill_bytes(self, dest) == Ok(fill_bytes(self, dest))

----------------------------------------------------------------------------------------------------------------------------------------------------------------------------------------------------
(* The state machine: a program that builds a generator a, owns a byte     *)
(* buffer dest, may take one copy b of a at another position, and then     *)
(* makes a number of calls on either generator.                            *)

\* Bounds of the model: the calls a program makes (MaxOps with buffers of every
\* length, MaxDraws with the longest buffer, MixCalls with many seeds and
\* positions) and the length of the buffer
MaxOps == 2

MaxDraws == 3

MixCalls == 1

MaxLen == 17

\* The seeds and positions the inputs are drawn from
Seeds == {U32(0, 3), U32(\h9E37, \h79B9)}

Positions == {One, MaxU32}

MixSeeds == Seeds \cup {Zero, One, U32(0, \hFFFF), U32(1, 0), U32(\h8000, 0),
                        U32(\hDEAD, \hBEEF), U32(\h0123, \h4567), MaxU32}

MixPositions == Positions \cup {Zero, U32(0, 2), U32(0, \h00FF), U32(0, \hFFFF),
                                U32(1, 0), U32(\h7FFF, \hFFFF), U32(\h8000, 0),
                                U32(\hCAFE, \hF00D), U32(\hFFFF, \hFFFE)}

Names == {"a", "b"}

NoGen == [position |-> <<>>, seed |-> <<>>]

\* A buffer of n bytes, each of value fill
Buffer(n, fill) == [i \in 1 .. n |-> fill]

VARIABLES
    gens,     \* the generator values owned: gens.a, and gens.b (NoGen until copied)
    dest,     \* the byte buffer the program fills
    twin,     \* a generator built like a and driven by the same operations
    twinDest, \* the buffer the twin fills, which starts with other contents
    built,    \* the seed a was constructed with
    born,     \* born[g]: the position g was created at
    outs,     \* outs[g]: the next_u32 results of g, while g was only drawn by next_u32
    pure,     \* pure[g]: every call on g since it was created was next_u32
    left,     \* the number of calls the program has yet to make
    ev        \* the last operation: what it was called on and with, what it returned

vars == <<gens, dest, twin, twinDest, built, born, outs, pure, left, ev>>

Event(op, on, pre, arg, ret, result, twinRet) ==
    [op |-> op, on |-> on, pre |-> pre, arg |-> arg, ret |-> ret,
     result |-> result, twinRet |-> twinRet]

\* let mut a = g;  where g came from constructor op
Constructed(g, op, arg) ==
    /\ gens = [a |-> g, b |-> NoGen]
    /\ twin = g
    /\ built = g.seed
    /\ born = [a |-> g.position, b |-> <<>>]
    /\ ev = Event(op, "a", [a |-> NoGen, b |-> NoGen], arg, <<>>, "none", <<>>)

\* let mut a = g.with_position(k);  where g came from constructor op
ConstructedAt(g, op, k) ==
    /\ gens = [a |-> with_position(g, k), b |-> NoGen]
    /\ twin = with_position(g, k)
    /\ built = g.seed
    /\ born = [a |-> k, b |-> <<>>]
    /\ ev = Event("with_position", "a", [a |-> g, b |-> NoGen], k, <<>>, "none", <<>>)

\* The program's start: a buffer of n bytes, a generator from one of the four
\* constructors (left at position 0 or moved to one of ks), calls yet to make
Start(n, seeds, ks, calls) ==
    /\ dest = Buffer(n, 0)
    /\ twinDest = Buffer(n, Byte - 1)
    /\ outs = [a |-> <<>>, b |-> <<>>]
    /\ pure = [a |-> TRUE, b |-> TRUE]
    /\ left = calls
    /\ \E s \in seeds :
          \/ Constructed(new(s), "new", s)
          \/ Constructed(with_seed(s), "with_seed", s)
          \/ Constructed(seed_from(s), "seed_from", s)
          \/ Constructed(from_seed(to_le_bytes32(s)), "from_seed", to_le_bytes32(s))
          \/ \E k \in ks : ConstructedAt(with_seed(s), "with_seed", k)

Init == \E n \in 0 .. MaxLen : Start(n, Seeds, {MaxU32}, MaxOps)

\* let mut b = a.with_position(k);
WithPosition(k) ==
    /\ gens.b = NoGen
    /\ gens' = [gens EXCEPT !.b = with_position(gens.a, k)]
    /\ born' = [born EXCEPT !.b = k]
    /\ ev' = Event("with_position", "b", gens, k, <<>>, "none", <<>>)
    /\ UNCHANGED <<dest, twin, twinDest, built, outs, pure, left>>

\* A call on generator g that returned: d is the call's outcome on g and t the
\* same call's outcome on the twin, which is driven as a is
Drawn(op, g, d, t, ret, fill, result) ==
    /\ gens' = [gens EXCEPT ![g] = d.rng]
    /\ twin' = IF g = "a" THEN t.rng ELSE twin
    /\ dest' = IF fill THEN d.dest ELSE dest
    /\ twinDest' = IF fill /\ g = "a" THEN t.dest ELSE twinDest
    /\ outs' = [outs EXCEPT ![g] = IF op = "next_u32" /\ pure[g]
                                   THEN Append(@, d.ret) ELSE @]
    /\ pure' = [pure EXCEPT ![g] = @ /\ op = "next_u32"]
    /\ left' = left - 1
    /\ ev' = Event(op, g, gens, dest, IF ret THEN d.ret ELSE <<>>,
                   IF result THEN d.result ELSE "none",
                   IF ret THEN t.ret ELSE <<>>)
    /\ UNCHANGED <<built, born>>

\* g.next_u32()
NextU32(g) ==
    /\ left > 0
    /\ gens[g] # NoGen
    /\ Drawn("next_u32", g, next_u32(gens[g]), next_u32(twin), TRUE, FALSE, FALSE)

\* g.next_u64()
NextU64(g) ==
    /\ left > 0
    /\ gens[g] # NoGen
    /\ Drawn("next_u64", g, next_u64(gens[g]), next_u64(twin), TRUE, FALSE, FALSE)

\* g.fill_bytes(&mut dest)
FillBytes(g) ==
    /\ left > 0
    /\ gens[g] # NoGen
    /\ Drawn("fill_bytes", g, fill_bytes(gens[g], dest),
             fill_bytes(twin, twinDest), FALSE, TRUE, FALSE)

\* g.try_fill_bytes(&mut dest)
TryFillBytes(g) ==
    /\ left > 0
    /\ gens[g] # NoGen
    /\ Drawn("try_fill_bytes", g, try_fill_bytes(gens[g], dest),
             try_fill_bytes(twin, twinDest), FALSE, TRUE, TRUE)

Next ==
    \/ \E k \in Positions : WithPosition(k)
    \/ \E g \in Names : NextU32(g)
    \/ \E g \in Names : NextU64(g)
    \/ \E g \in Names : FillBytes(g)
    \/ \E g \in Names : TryFillBytes(g)

\* Programs of every buffer length
Spec == Init /\ [][Next]_vars

\* Programs that own the longest buffer and make more calls
InitDraws == Start(MaxLen, Seeds, Positions, MaxDraws)

SpecDraws == InitDraws /\ [][Next]_vars

\* Programs that own an empty buffer and start from many seeds and positions
InitMix == Start(0, MixSeeds, MixPositions, MixCalls)

SpecMix == InitMix /\ [][Next]_vars

----------------------------------------------------------------------------
(* What the claims are stated with                                         *)

\* x + 1 modulo 2^32, limb by limb
Succ32(x) ==
    IF x[1] < Limb - 1 THEN <<x[1] + 1, x[2]>>
    ELSE IF x[2] < Limb - 1 THEN <<0, x[2] + 1>>
    ELSE <<0, 0>>

\* x + n modulo 2^32
RECURSIVE Plus32(_, _)
Plus32(x, n) == IF n = 0 THEN x ELSE Plus32(Succ32(x), n - 1)

\* The natural number n < 2^31 as a u32
Nat32(n) == <<n % Limb, n \div Limb>>

\* Byte j (0 the least significant) of a u32 or u64
LEByte(x, j) ==
    IF j % 2 = 0 THEN x[(j \div 2) + 1] % Byte ELSE x[(j \div 2) + 1] \div Byte

\* The generator the last call was made on, before and after the call
Pre == ev.pre[ev.on]

Post == gens[ev.on]

\* A generator after c consecutive next_u64 draws
RECURSIVE After64(_, _)
After64(g, c) == IF c = 0 THEN g ELSE After64(next_u64(g).rng, c - 1)

DrawOps == {"next_u32", "next_u64", "fill_bytes", "try_fill_bytes"}

\* Byte i (from 0) of the little-endian encodings, one after the other, of the
\* consecutive native draws of a generator at (position, seed)
StreamByte(position, seed, i) ==
    LEByte(squirrel3(Plus32(position, i \div 4), seed), i % 4)

----------------------------------------------------------------------------------------------------------------------------------------
(* A reference for the mixer in radix 256: a value is its four digits      *)
(* <<d0, d1, d2, d3>>, d0 the least significant.                           *)

Digits(x) == <<x[1] % Byte, x[1] \div Byte, x[2] % Byte, x[2] \div Byte>>

\* The digits of a number written as eight hexadecimal digits, the most
\* significant first
HexDigits(h) ==
    <<16 * h[7] + h[8], 16 * h[5] + h[6], 16 * h[3] + h[4], 16 * h[1] + h[2]>>

\* The low four digits of the number whose radix-256 column sums are c
Low4(c) ==
    LET k1 == c[1] \div Byte
        k2 == (c[2] + k1) \div Byte
        k3 == (c[3] + k2) \div Byte
    IN  <<c[1] % Byte, (c[2] + k1) % Byte, (c[3] + k2) % Byte, (c[4] + k3) % Byte>>

RefMul(x, y) ==
    Low4(<<x[1] * y[1],
           x[1] * y[2] + x[2] * y[1],
           x[1] * y[3] + x[2] * y[2] + x[3] * y[1],
           x[1] * y[4] + x[2] * y[3] + x[3] * y[2] + x[4] * y[1]>>)

RefAdd(x, y) == Low4(<<x[1] + y[1], x[2] + y[2], x[3] + y[3], x[4] + y[4]>>)

RefXor(x, y) ==
    <<XorBits(x[1], y[1], 8), XorBits(x[2], y[2], 8),
      XorBits(x[3], y[3], 8), XorBits(x[4], y[4], 8)>>

\* x >> 8 and x << 8 move the digits by one place
RefShr8(x) == <<x[2], x[3], x[4], 0>>

RefShl8(x) == <<0, x[1], x[2], x[3]>>

\* m = position; m = m * 0x68E31DA4; m = m + seed; m = m XOR (m >> 8);
\* m = m + 0xB5297A4D; m = m XOR (m << 8); m = m * 0x1B56C4E9; m = m XOR (m >> 8)
RefMix(position, seed) ==
    LET m1 == RefMul(position, HexDigits(<<6, 8, 14, 3, 1, 13, 10, 4>>))
        m2 == RefAdd(m1, seed)
        m3 == RefXor(m2, RefShr8(m2))
        m4 == RefAdd(m3, HexDigits(<<11, 5, 2, 9, 7, 10, 4, 13>>))
        m5 == RefXor(m4, RefShl8(m4))
        m6 == RefMul(m5, HexDigits(<<1, 11, 5, 6, 12, 4, 14, 9>>))
    IN  RefXor(m6, RefShr8(m6))

----------------------------------------------------------------------------
(* The claims                                                              *)

\* C3: next_u32 returns squirrel3(position, seed) of the position held before
\* the call and leaves position = (position + 1) mod 2^32; from position
\* 2^32 - 1 it goes to position 0.
C3_NativeDrawWraps ==
    ev.op = "next_u32" =>
        /\ ev.ret = squirrel3(Pre.position, Pre.seed)
        /\ Post.position = Succ32(Pre.position)
        /\ Pre.position = MaxU32 => Post.position = Zero

C3_Witness ==
    /\ ev.op = "next_u32"
    /\ Pre.position = MaxU32
    /\ Post.position = Zero

\* C4: next_u64 returns (second << 32) | first, first and second being two
\* consecutive next_u32 draws from the position held before the call, and
\* advances position by 2 modulo 2^32.
C4_CrossWidth ==
    ev.op = "next_u64" =>
        LET first  == next_u32(Pre)
            second == next_u32(first.rng)
        IN  /\ ev.ret = <<first.ret[1], first.ret[2], second.ret[1], second.ret[2]>>
            /\ Post.position = Succ32(Succ32(Pre.position))
            /\ Post.seed = Pre.seed

C4_Witness ==
    /\ ev.op = "next_u64"
    /\ Pre.position = MaxU32
    /\ Post.position = One

\* C6: squirrel3(position, seed) is the result of the fixed sequence multiply,
\* add, xor-shift-right, add, xor-shift-left, multiply, xor-shift-right with
\* the three constants, everything modulo 2^32, and lies in 0 .. 2^32 - 1.
C6_MixerReference ==
    ev.op = "next_u32" =>
        /\ IsU32(ev.ret)
        /\ Digits(ev.ret) = RefMix(Digits(Pre.position), Digits(Pre.seed))

C6_Witness ==
    /\ ev.op = "next_u32"
    /\ Pre.position = MaxU32
    /\ Pre.seed = MaxU32
    /\ ev.ret = U32(\h3A5E, \h5042)

\* C1: b = a.with_position(k) is a value of its own: no call on b changes a's
\* position or seed, a's draws are those of its own seed and positions, and
\* for a built at position 0 and b = a.with_position(1), a's second next_u32
\* result is b's first.
C1_CopyIsolation ==
    /\ ev.on = "b" => gens.a = ev.pre.a
    /\ \A i \in 1 .. Len(outs.a) :
          outs.a[i] = squirrel3(Plus32(born.a, i - 1), built)
    /\ (born.a = Zero /\ born.b = One /\ Len(outs.a) >= 2 /\ Len(outs.b) >= 1)
          => outs.a[2] = outs.b[1]

C1_Witness ==
    /\ built = U32(0, 3)
    /\ born.a = Zero
    /\ born.b = One
    /\ Len(outs.b) >= 1
    /\ Len(outs.a) = 2
    /\ outs.a[1] # outs.b[1]
    /\ outs.a[2] = outs.b[1]
    /\ ev.on = "a"

\* C2: the next_u32 that follows p native draws from position 0 returns what
\* the first next_u32 of with_seed(s).with_position(p) returns, and leaves the
\* same (seed, position).
C2_RandomAccess ==
    (ev.op = "next_u32" /\ ev.on = "a" /\ born.a = Zero /\ pure.a) =>
        LET p == Len(outs.a) - 1
            r == next_u32(with_position(with_seed(built), Nat32(p)))
        IN  /\ ev.ret = r.ret
            /\ gens.a = r.rng

C2_Witness ==
    /\ ev.op = "next_u32"
    /\ ev.on = "a"
    /\ born.a = Zero
    /\ pure.a
    /\ Len(outs.a) = 3
    /\ gens.a.position = U32(0, 3)

\* C5: fill_bytes writes the 8 little-endian bytes of one next_u64 draw per
\* full 8-byte chunk, in order; then, n bytes being left, the low n bytes of
\* one next_u64 draw if 5 <= n <= 7, of one next_u32 draw if 1 <= n <= 4, and
\* draws nothing if n = 0; the 8-byte-aligned prefix is the little-endian
\* encoding of consecutive native draws.
C5_ByteFillPolicy ==
    ev.op = "fill_bytes" =>
        LET N      == Len(ev.arg)
            q      == N \div 8
            n      == N % 8
            rest   == After64(Pre, q)
            wide   == next_u64(rest)
            narrow == next_u32(rest)
        IN  /\ Len(dest) = N
            /\ \A c \in 0 .. q - 1 : \A j \in 0 .. 7 :
                  dest[8 * c + j + 1] = LEByte(next_u64(After64(Pre, c)).ret, j)
            /\ n >= 5 =>
                  /\ Post = wide.rng
                  /\ \A j \in 0 .. n - 1 : dest[8 * q + j + 1] = LEByte(wide.ret, j)
            /\ n \in 1 .. 4 =>
                  /\ Post = narrow.rng
                  /\ \A j \in 0 .. n - 1 : dest[8 * q + j + 1] = LEByte(narrow.ret, j)
            /\ n = 0 => Post = rest
            /\ \A i \in 0 .. 8 * q - 1 :
                  dest[i + 1] = StreamByte(Pre.position, Pre.seed, i)

C5_Witness ==
    /\ ev.op = "fill_bytes"
    /\ Len(dest) = 17
    /\ Pre.position = MaxU32
    /\ Post.position = U32(0, 4)
    /\ dest # ev.arg

\* C7: try_fill_bytes returns Ok(()) and leaves the generator and the buffer
\* as fill_bytes leaves them from the same start, whatever the buffer's
\* length.
C7_TryFillNeverFails ==
    ev.op = "try_fill_bytes" =>
        LET f == fill_bytes(Pre, ev.arg)
        IN  /\ ev.result = "Ok"
            /\ Post = f.rng
            /\ dest = f.dest

C7_Witness ==
    /\ ev.op = "try_fill_bytes"
    /\ ev.result = "Ok"
    /\ Len(dest) = 0
    /\ Post = Pre

\* C8: a generator that starts with a's (seed, position) and is driven by the
\* same calls returns what a returns and stays equal to a, whatever else
\* differs: the bytes its buffer held before, the copy b and the calls on b.
C8_Determinism ==
    /\ twin = gens.a
    /\ (ev.on = "a" /\ ev.op \in {"next_u32", "next_u64"}) => ev.ret = ev.twinRet
    /\ (ev.on = "a" /\ ev.op \in {"fill_bytes", "try_fill_bytes"}) => dest = twinDest

C8_Witness ==
    /\ ev.on = "a"
    /\ ev.op = "fill_bytes"
    /\ left = MaxOps - 1
    /\ Len(dest) = MaxLen
    /\ ev.arg = Buffer(MaxLen, 0)
    /\ dest = twinDest
    /\ twin = gens.a
    /\ twin # ev.pre.a

\* C9: the seed a generator was constructed with is its seed in every state;
\* with_position sets the position and keeps the seed, and a draw keeps the
\* seed.
C9_SeedImmutable ==
    /\ gens.a.seed = built
    /\ gens.b # NoGen => gens.b.seed = built
    /\ ev.op = "with_position" =>
          /\ Post.seed = ev.pre.a.seed
          /\ Post.position = ev.arg
    /\ ev.op \in DrawOps => Post.seed = Pre.seed

C9_Witness ==
    /\ gens.b # NoGen
    /\ gens.b.seed = built
    /\ gens.a.seed = built
    /\ gens.a.position # born.a
    /\ gens.b.position # born.b
    /\ left = 0

\* C10: fill_bytes on a buffer of N bytes advances position by ceil(N / 4)
\* modulo 2^32, leaves the generator as it was when N = 0, and writes the
\* first N bytes of the little-endian encodings of the consecutive next_u32
\* draws from the position held before the call.
C10_FillConsumesSlots ==
    ev.op = "fill_bytes" =>
        LET N == Len(ev.arg)
        IN  /\ Post.position = Plus32(Pre.position, (N + 3) \div 4)
            /\ Post.seed = Pre.seed
            /\ Len(dest) = N
            /\ \A i \in 0 .. N - 1 :
                  dest[i + 1] = StreamByte(Pre.position, Pre.seed, i)
            /\ N = 0 => (Post = Pre /\ dest = ev.arg)

C10_Witness ==
    /\ ev.op = "fill_bytes"
    /\ Len(dest) = 7
    /\ Pre.position = MaxU32
    /\ Post.position = One

====
